---- MODULE Spec2Model ----
(***************************************************************************)
(* Model of the wildfire weather-enrichment pipeline of                    *)
(* src/data/historical_bc_wildfires/utils.py:                              *)
(*   - convert_float_to_datetime   (timestamp normalisation)               *)
(*   - wind_direction_to_text and the wind decoding of get_weather_data    *)
(*   - retry_with_backoff          (the retry wrapper)                     *)
(*   - get_weather_data / process_dataframe (row and batch processing)     *)
(*                                                                         *)
(* Units: angles are in micro-degrees, times in tenths of a second,        *)
(* temperatures in hundredths of a kelvin / degree, speeds in mm/s.        *)
(* A nullable number is <<>> (null, NaN, None) or <<x>>.                   *)
(***************************************************************************)
EXTENDS Integers, Sequences, FiniteSets, TLC

VARIABLES
    ts_series,      \* convert_float_to_datetime: the input Series
    ts_out,         \* convert_float_to_datetime: the returned Series
    ts_done,        \* convert_float_to_datetime has returned
    wind_in,        \* wind decoding: the input (degrees, u, v)
    wind_out,       \* wind decoding: the computed outputs
    w,              \* retry wrapper: locals of the running invocation
    params,         \* retry wrapper: the decorator's arguments
    hist,           \* retry wrapper: what func did on each call of the invocation
    slept,          \* retry wrapper: time.sleep total of the invocation
    invocations,    \* retry wrapper: number of invocations started
    df_in,          \* process_dataframe: the df argument
    batch_size,     \* process_dataframe: the batch_size argument
    pc,             \* process_dataframe: position in the function
    p,              \* process_dataframe: its locals and effects
    disk,           \* the downloads folder: file name -> content and write count
    runs            \* number of process_dataframe runs started

vars == <<ts_series, ts_out, ts_done, wind_in, wind_out,
          w, params, hist, slept, invocations,
          df_in, batch_size, pc, p, disk, runs>>

tsVars    == <<ts_series, ts_out, ts_done>>
windVars  == <<wind_in, wind_out>>
retryVars == <<w, params, hist, slept, invocations>>
pipeVars  == <<df_in, batch_size, pc, p, disk, runs>>

----------------------------------------------------------------------------
(* Generic helpers *)

Null == <<>>
Some(x) == <<x>>
IsNull(x) == x = <<>>

Range(s) == {s[k] : k \in DOMAIN s}

\* The concatenation of a sequence of sequences.
Flatten(ss) ==
    LET RECURSIVE Go(_)
        Go(k) == IF k = 0 THEN <<>> ELSE Go(k - 1) \o ss[k]
    IN  Go(Len(ss))

\* All orderings of the positions 1..n.
Perms(n) == {f \in [1..n -> 1..n] : \A a, b \in 1..n : a # b => f[a] # f[b]}

----------------------------------------------------------------------------
(* convert_float_to_datetime  (utils.py:20-58)                              *)
(*                                                                          *)
(* A numeric value is [nan, neg, digits]: NaN, or a whole number given by   *)
(* its sign and its decimal digits (14-digit values exceed the model        *)
(* checker's integers, so a number is kept as its digits). A Series is a    *)
(* sequence of [idx, val] with distinct index labels. A datetime64 value is *)
(* NaT, a parsed calendar timestamp, or the timestamp that lies val         *)
(* nanoseconds from the epoch (kind "epoch_ns").                            *)

MaxSeriesLen == 2

NaN == [nan |-> TRUE, neg |-> FALSE, digits |-> <<>>]
Num(neg, digits) == [nan |-> FALSE, neg |-> neg, digits |-> digits]

NaT == [kind |-> "NaT"]

Chars == <<"0", "1", "2", "3", "4", "5", "6", "7", "8", "9">>
IsDigit(c) == c \in Range(Chars)
DigitVal(c) == CHOOSE d \in 0..9 : Chars[d + 1] = c

\* series.astype('int64').astype(str) of one value: sign, then decimal digits.
IntStr(v) ==
    (IF v.neg THEN <<"-">> ELSE <<>>) \o [k \in 1..Len(v.digits) |-> Chars[v.digits[k] + 1]]

\* The number a run of digit characters denotes.
FieldVal(cs) ==
    LET RECURSIVE Go(_)
        Go(k) == IF k = 0 THEN 0 ELSE 10 * Go(k - 1) + DigitVal(cs[k])
    IN  Go(Len(cs))

IsLeap(y) == (y % 4 = 0 /\ y % 100 # 0) \/ y % 400 = 0

DaysInMonth(y, m) ==
    IF m = 2 THEN (IF IsLeap(y) THEN 29 ELSE 28)
    ELSE IF m \in {4, 6, 9, 11} THEN 30 ELSE 31

\* Lexicographic a <= b on equal-length integer tuples.
LexLeq(a, b) ==
    LET RECURSIVE Go(_)
        Go(k) == IF k > Len(a) THEN TRUE
                 ELSE IF a[k] < b[k] THEN TRUE
                 ELSE IF a[k] > b[k] THEN FALSE
                 ELSE Go(k + 1)
    IN  Go(1)

\* The range of datetime64[ns], to the second.
TimestampMin == <<1677, 9, 21, 0, 12, 44>>
TimestampMax == <<2262, 4, 11, 23, 47, 16>>

ValidFields(f) ==
    /\ f[2] \in 1..12
    /\ f[3] \in 1..DaysInMonth(f[1], f[2])
    /\ f[4] \in 0..23 /\ f[5] \in 0..59 /\ f[6] \in 0..59
    /\ LexLeq(TimestampMin, f) /\ LexLeq(f, TimestampMax)

\* The fields <<Y, M, D, h, m, s>> of a string of 8 (%Y%m%d) or 14
\* (%Y%m%d%H%M%S) characters: fixed-width fields.
Fields(s) ==
    <<FieldVal(SubSeq(s, 1, 4)), FieldVal(SubSeq(s, 5, 6)), FieldVal(SubSeq(s, 7, 8))>>
    \o (IF Len(s) = 14
        THEN <<FieldVal(SubSeq(s, 9, 10)), FieldVal(SubSeq(s, 11, 12)),
               FieldVal(SubSeq(s, 13, 14))>>
        ELSE <<0, 0, 0>>)

\* pd.to_datetime(s, format=..., errors='coerce') of one string of length 8
\* or 14: the timestamp, or NaT when the string does not parse.
to_datetime(s) ==
    IF (\A k \in DOMAIN s : IsDigit(s[k])) /\ ValidFields(Fields(s))
    THEN [kind |-> "calendar", fields |-> Fields(s)]
    ELSE NaT

\* pd.Series(index=series.index, data=series, dtype='datetime64[ns]'): the
\* cast of each number to datetime64[ns] reads it as nanoseconds from the
\* epoch; NaN casts to NaT.
AsDatetime64(v) ==
    IF v.nan THEN NaT ELSE [kind |-> "epoch_ns", neg |-> v.neg, digits |-> v.digits]

NotNaN(e) == ~e.val.nan

dropna(series) == SelectSeq(series, NotNaN)

\* Series.sort_index(): ascending index labels.
sort_index(series) ==
    LET Insert(acc, e) ==
            LET k == Cardinality({q \in DOMAIN acc : acc[q].idx <= e.idx})
            IN  SubSeq(acc, 1, k) \o <<e>> \o SubSeq(acc, k + 1, Len(acc))
        RECURSIVE Go(_)
        Go(k) == IF k = 0 THEN <<>> ELSE Insert(Go(k - 1), series[k])
    IN  Go(Len(series))

\* Series.update(other): aligned on the index, only the non-NA values of
\* other replace values of the Series.
update(series, other) ==
    [k \in DOMAIN series |->
        IF \E q \in DOMAIN other : other[q].idx = series[k].idx /\ other[q].val # NaT
        THEN other[CHOOSE q \in DOMAIN other :
                       other[q].idx = series[k].idx /\ other[q].val # NaT]
        ELSE series[k]]

convert_float_to_datetime(series) ==
    LET datetime_series == [k \in DOMAIN series |->
                               [idx |-> series[k].idx, val |-> AsDatetime64(series[k].val)]]
        non_null  == dropna(series)
        str_dates == [k \in DOMAIN non_null |->
                         [idx |-> non_null[k].idx, str |-> IntStr(non_null[k].val)]]
        Mask8(e)  == Len(e.str) = 8
        Mask14(e) == Len(e.str) = 14
        Parse(es) == [k \in DOMAIN es |-> [idx |-> es[k].idx, val |-> to_datetime(es[k].str)]]
        parsed_dates == sort_index(Parse(SelectSeq(str_dates, Mask8))
                                   \o Parse(SelectSeq(str_dates, Mask14)))
    IN  IF non_null = <<>> THEN datetime_series
        ELSE update(datetime_series, parsed_dates)

\* Sample numeric values: valid and invalid 8- and 14-digit values, other
\* lengths, a negative value whose rendering has 8 characters, and NaN.
TsValues ==
    { NaN,
      Num(FALSE, <<2, 0, 2, 0, 0, 7, 1, 5>>),
      Num(FALSE, <<2, 0, 2, 0, 1, 3, 0, 1>>),
      Num(FALSE, <<2, 0, 1, 9, 0, 2, 2, 9>>),
      Num(FALSE, <<2, 0, 2, 0, 0, 7, 1, 5, 1, 3, 4, 5, 0, 0>>),
      Num(FALSE, <<2, 0, 2, 0, 0, 7, 1, 5, 2, 5, 0, 0, 0, 0>>),
      Num(FALSE, <<1, 2, 3>>),
      Num(FALSE, <<2, 0, 2, 0, 0, 7, 1, 5, 1>>),
      Num(TRUE,  <<2, 0, 2, 0, 0, 7, 1>>) }

\* Every Series of up to MaxSeriesLen sample values, under every order of
\* its index labels.
TsSeriesInputs ==
    UNION { { [k \in 1..n |-> [idx |-> ix[k], val |-> vs[k]]] :
                ix \in Perms(n), vs \in [1..n -> TsValues] } : n \in 0..MaxSeriesLen }

TsInit ==
    /\ ts_series \in TsSeriesInputs
    /\ ts_out = <<>>
    /\ ts_done = FALSE

TsIdle ==
    /\ ts_series = <<>>
    /\ ts_out = <<>>
    /\ ts_done = FALSE

Convert ==
    /\ ~ts_done
    /\ ts_out' = convert_float_to_datetime(ts_series)
    /\ ts_done' = TRUE
    /\ UNCHANGED <<ts_series, windVars, retryVars, pipeVars>>

\* C1 (as claimed): the output has the input's length and index order, an
\* absent value stays unknown (NaT), and every present value whose digit
\* string has a length other than 8 or 14, or does not parse under its
\* length's pattern, is unknown (NaT).
C1_OnlyValidLengthsGetTimestamps ==
    ts_done =>
        /\ Len(ts_out) = Len(ts_series)
        /\ \A k \in DOMAIN ts_series :
              LET v == ts_series[k].val
                  Qualifies == /\ ~v.nan
                               /\ Len(IntStr(v)) \in {8, 14}
                               /\ to_datetime(IntStr(v)) # NaT
              IN  /\ ts_out[k].idx = ts_series[k].idx
                  /\ ~Qualifies => ts_out[k].val = NaT

----------------------------------------------------------------------------
(* wind_direction_to_text (utils.py:84-116) and the wind decoding of        *)
(* get_weather_data (utils.py:271-290). Angles are in micro-degrees.        *)

Deg(x) == x * 1000000
Deg10(x) == x * 100000      \* x tenths of a degree

\* The table without its (337.5, 360) entry.
directions_noWrap ==
    << [start |-> 0,           end |-> Deg10(225),  text |-> "North"],
       [start |-> Deg10(225),  end |-> Deg10(675),  text |-> "Northeast"],
       [start |-> Deg10(675),  end |-> Deg10(1125), text |-> "East"],
       [start |-> Deg10(1125), end |-> Deg10(1575), text |-> "Southeast"],
       [start |-> Deg10(1575), end |-> Deg10(2025), text |-> "South"],
       [start |-> Deg10(2025), end |-> Deg10(2475), text |-> "Southwest"],
       [start |-> Deg10(2475), end |-> Deg10(2925), text |-> "West"],
       [start |-> Deg10(2925), end |-> Deg10(3375), text |-> "Northwest"] >>

\* utils.py:95-105, in list order.
directions ==
    << [start |-> Deg10(3375), end |-> Deg(360),    text |-> "North"],
       [start |-> 0,           end |-> Deg10(225),  text |-> "North"],
       [start |-> Deg10(225),  end |-> Deg10(675),  text |-> "Northeast"],
       [start |-> Deg10(675),  end |-> Deg10(1125), text |-> "East"],
       [start |-> Deg10(1125), end |-> Deg10(1575), text |-> "Southeast"],
       [start |-> Deg10(1575), end |-> Deg10(2025), text |-> "South"],
       [start |-> Deg10(2025), end |-> Deg10(2475), text |-> "Southwest"],
       [start |-> Deg10(2475), end |-> Deg10(2925), text |-> "West"],
       [start |-> Deg10(2925), end |-> Deg10(3375), text |-> "Northwest"] >>

\* The first entry of a direction table that holds the normalised angle.
FirstMatch(table, wind_dir_deg) ==
    LET n == wind_dir_deg % Deg(360)
        Hits == {k \in DOMAIN table :
                    \/ table[k].start <= n /\ n < table[k].end
                    \/ table[k].start <= n /\ n <= table[k].end /\ table[k].end = Deg(360)}
    IN  IF Hits = {} THEN "Unknown"
        ELSE table[CHOOSE k \in Hits : \A j \in Hits : k <= j].text

\* A table whose sectors start at the compass points instead of being
\* centred on them (North = [0, 45), Northeast = [45, 90), ...).
directions_uncentred ==
    [k \in 1..8 |->
        [start |-> Deg(45) * (k - 1), end |-> Deg(45) * k,
         text |-> << "North", "Northeast", "East", "Southeast",
                     "South", "Southwest", "West", "Northwest" >>[k]]]

wind_direction_to_text_uncentred(wind_dir_deg) ==
    FirstMatch(directions_uncentred, wind_dir_deg)

wind_direction_to_text(wind_dir_deg) ==
    FirstMatch(directions, wind_dir_deg)

\* Integer square root, by bisection.
ISqrt(n) ==
    LET RECURSIVE Go(_, _)
        Go(lo, hi) == IF lo = hi THEN lo
                      ELSE LET mid == (lo + hi + 1) \div 2
                           IN  IF mid * mid <= n THEN Go(mid, hi) ELSE Go(lo, mid - 1)
    IN  Go(0, 46340)

\* (180/3.14159) * math.atan2(v, u) in micro-degrees, for u, v in -1..1:
\* atan2 is a multiple k of pi/4 there, and (180/3.14159) * pi/4 is
\* 45.000038 degrees.
Atan2Deg(v, u) ==
    LET k == CASE v = 0 /\ u >= 0 -> 0
               [] v = 1 /\ u = 1   -> 1
               [] v = 1 /\ u = 0   -> 2
               [] v = 1 /\ u = -1  -> 3
               [] v = 0 /\ u = -1  -> 4
               [] v = -1 /\ u = -1 -> -3
               [] v = -1 /\ u = 0  -> -2
               [] v = -1 /\ u = 1  -> -1
    IN  k * 45000038

\* utils.py:274: (u**2 + v**2)**0.5, u and v in m/s, the speed in mm/s.
wind_speed_of(u, v) == ISqrt((u * u + v * v) * 1000000)

\* utils.py:277-280.
wind_dir_of(u, v) ==
    IF u = 0 /\ v = 0 THEN 0
    ELSE (Deg(270) - Atan2Deg(v, u)) % Deg(360)

WindComponents == -1..1

\* Sample angles: the sector boundaries and their neighbours, the angles
\* the boundary cases name, and angles outside [0, 360).
WindDegInputs ==
    {Deg10(225) + Deg(45) * k + d : k \in 0..7, d \in {-1, 0, 1}}
    \cup {0, Deg10(449), Deg(45), Deg10(3599), Deg(180), Deg(360) - 1,
          Deg(360), Deg(360) + Deg10(449), -1, 0 - Deg(45)}

NotComputed == "not computed"

WindInit ==
    /\ wind_in \in [deg : WindDegInputs, u : WindComponents, v : WindComponents]
    /\ wind_out = [text |-> NotComputed, decoded |-> <<>>]

WindIdle ==
    /\ wind_in = [deg |-> 0, u |-> 0, v |-> 0]
    /\ wind_out = [text |-> NotComputed, decoded |-> <<>>]

ToText ==
    /\ wind_out.text = NotComputed
    /\ wind_out' = [wind_out EXCEPT !.text = wind_direction_to_text(wind_in.deg)]
    /\ UNCHANGED <<wind_in, tsVars, retryVars, pipeVars>>

\* utils.py:271-290: speed, direction and label from the u, v components.
Decode ==
    /\ wind_out.decoded = <<>>
    /\ LET wind_dir == wind_dir_of(wind_in.u, wind_in.v)
       IN  wind_out' = [wind_out EXCEPT !.decoded =
                           << [wind_speed_ms |-> wind_speed_of(wind_in.u, wind_in.v),
                               wind_direction_deg |-> wind_dir,
                               wind_direction |-> wind_direction_to_text(wind_dir)] >>]
    /\ UNCHANGED <<wind_in, tsVars, retryVars, pipeVars>>

\* The decoder's part of the boundary cases: no wind (u = v = 0) decodes to
\* speed 0 and direction 0 degrees, labelled North.
NoWindDecodesNorth ==
    (wind_out.decoded # <<>> /\ wind_in.u = 0 /\ wind_in.v = 0) =>
        wind_out.decoded = << [wind_speed_ms |-> 0, wind_direction_deg |-> 0,
                               wind_direction |-> "North"] >>

TextIs(deg, text) ==
    (wind_out.text # NotComputed /\ wind_in.deg = deg) => wind_out.text = text

\* C9 (as claimed): 0 -> North, 44.9 -> North, 45 -> Northeast,
\* 359.9 -> North, 180 -> South; u = v = 0 -> speed 0, direction 0, North.
C9_BoundaryCasesAsClaimed ==
    /\ TextIs(0, "North")
    /\ TextIs(Deg10(449), "North")
    /\ TextIs(Deg(45), "Northeast")
    /\ TextIs(Deg10(3599), "North")
    /\ TextIs(Deg(180), "South")
    /\ NoWindDecodesNorth

\* C9 (amended): as claimed, except that 44.9 degrees, which lies in the
\* sector [22.5, 67.5), is labelled Northeast.
C9_BoundaryCases ==
    /\ TextIs(0, "North")
    /\ TextIs(Deg10(449), "Northeast")
    /\ TextIs(Deg(45), "Northeast")
    /\ TextIs(Deg10(3599), "North")
    /\ TextIs(Deg(180), "South")
    /\ NoWindDecodesNorth

C9_Witness ==
    /\ wind_in.deg = Deg10(449)
    /\ wind_out.text = "Northeast"
    /\ wind_in.u = 0 /\ wind_in.v = 0
    /\ wind_out.decoded # <<>>

CompassPoints ==
    << "North", "Northeast", "East", "Southeast",
       "South", "Southwest", "West", "Northwest" >>

\* The angle n of [0, 360) lies in the 45-degree sector centred on compass
\* point k (at 45 * (k - 1) degrees), lower bound inclusive, upper bound
\* exclusive; the sector of North wraps around 360.
InSector(n, k) ==
    LET lo == (Deg(45) * (k - 1) - Deg10(225)) % Deg(360)
        off == (n - lo) % Deg(360)
    IN  off < Deg(45)

\* C15: a direction value, normalised modulo 360, lies in exactly one of
\* the 8 sectors of 45 degrees centred on the compass points (337.5-360 and
\* 0-22.5 together being North), the label returned is that sector's, and
\* so "Unknown" is never returned, for the directions the decoder computes
\* as well.
C15_EveryDirectionHasOneSector ==
    /\ wind_out.text # NotComputed =>
          LET n == wind_in.deg % Deg(360)
              Holding == {k \in DOMAIN CompassPoints : InSector(n, k)}
          IN  /\ Cardinality(Holding) = 1
              /\ \A k \in Holding : wind_out.text = CompassPoints[k]
              /\ wind_out.text # "Unknown"
              /\ wind_out.text = "North" <=> (n >= Deg10(3375) \/ n < Deg10(225))
    /\ wind_out.decoded # <<>> =>
          /\ wind_out.decoded[1].wind_direction \in Range(CompassPoints)
          /\ InSector(wind_out.decoded[1].wind_direction_deg,
                      CHOOSE k \in DOMAIN CompassPoints :
                          CompassPoints[k] = wind_out.decoded[1].wind_direction)

C15_Witness ==
    /\ wind_in.deg = -1
    /\ wind_out.text = "North"
    /\ wind_out.decoded # <<>>
    /\ wind_out.decoded[1].wind_direction = "Northwest"

----------------------------------------------------------------------------
(* retry_with_backoff (utils.py:119-161). Times are in tenths of a second.  *)
(*                                                                          *)
(* What the wrapped function does on one attempt is its outcome kind:       *)
(*   "ok"        it returns a value                                         *)
(*   "timeout"   it raises ee.EEException, message containing "timed out"   *)
(*   "quota"     it raises ee.EEException for quota exhaustion ("Quota      *)
(*               exceeded", "Too Many Requests": no "timed out" in it)      *)
(*   "ee_other"  it raises ee.EEException for another reason                *)
(*   "other"     it raises an exception that is not an ee.EEException       *)
(* The outcome of attempt n is [kind, at |-> n]: the value returned or the  *)
(* exception object raised by that attempt.                                 *)

MaxRetries == 3         \* max_retries ranges over 0..MaxRetries
MaxInvocations == 2     \* invocations of one wrapper that are followed

OutcomeKinds == {"ok", "timeout", "quota", "ee_other", "other"}

InitialDelays == {10, 20}
BackoffFactors == {1, 2}

RetryParams ==
    [max_retries : 0..MaxRetries, initial_delay : InitialDelays,
     backoff_factor : BackoffFactors]

\* The defaults of utils.py:119, used by sample_point_data_with_retry.
DefaultParams == [max_retries |-> 3, initial_delay |-> 20, backoff_factor |-> 2]

Outcome(kinds, n) == [kind |-> kinds[n], at |-> n]

\* utils.py:140: except exceptions, with exceptions = (ee.EEException,).
Caught(o) == o.kind \in {"timeout", "quota", "ee_other"}

\* Every caught exception counts as a timeout.
IsTimedOut_everyCaught(o) == TRUE

\* utils.py:146: "timed out" in str(e).lower().
IsTimedOut(o) == o.kind = "timeout"

\* One attempt too many: retries > max_retries.
RetriesExhausted_late(wr, prm) == wr.retries > prm.max_retries

\* utils.py:141: retries == max_retries.
RetriesExhausted(wr, prm) == wr.retries = prm.max_retries

WrapperIdle ==
    [state |-> "idle", retries |-> 0, delay |-> 0, attempts |-> 0,
     sleeps |-> 0, result |-> <<>>]

\* The locals of the previous invocation are kept.
WrapperStart_stale(prm) ==
    [state |-> "running", retries |-> w.retries,
     delay |-> IF w.state = "idle" THEN prm.initial_delay ELSE w.delay,
     attempts |-> 0, sleeps |-> 0, result |-> <<>>]

\* utils.py:134-135: the locals at entry to wrapper.
WrapperStart(prm) ==
    [state |-> "running", retries |-> 0, delay |-> prm.initial_delay,
     attempts |-> 0, sleeps |-> 0, result |-> <<>>]

\* utils.py:137-159: whether this iteration reaches time.sleep.
Sleeps(wr, prm, o) ==
    /\ wr.retries <= prm.max_retries
    /\ Caught(o)
    /\ ~RetriesExhausted(wr, prm)
    /\ IsTimedOut(o)

\* A jitter of up to the whole delay.
Jitters_wide(delay) == 0..delay

\* utils.py:148: random.uniform(0, 0.1 * delay), to the tenth of a second.
Jitters(delay) == 0..(delay \div 10)

\* utils.py:137-159: one iteration of the while loop, func having outcome o.
\* The loop left without a return makes wrapper return None.
WrapperStep(wr, prm, o) ==
    IF ~(wr.retries <= prm.max_retries)
    THEN [wr EXCEPT !.state = "returned", !.result = <<[kind |-> "None", at |-> 0]>>]
    ELSE LET tried == [wr EXCEPT !.attempts = @ + 1]
         IN  IF o.kind = "ok"
             THEN [tried EXCEPT !.state = "returned", !.result = <<o>>]
             ELSE IF ~Caught(o)
             THEN [tried EXCEPT !.state = "raised", !.result = <<o>>]
             ELSE IF RetriesExhausted(wr, prm)
             THEN [tried EXCEPT !.state = "raised", !.result = <<o>>]
             ELSE IF IsTimedOut(o)
             THEN [tried EXCEPT !.sleeps = @ + 1,
                                !.delay = @ * prm.backoff_factor,
                                !.retries = @ + 1]
             ELSE [tried EXCEPT !.state = "raised", !.result = <<o>>]

Terminated(wr) == wr.state \in {"returned", "raised"}

\* Whether every call recorded in h timed out.
AllTimeouts(h) == \A n \in DOMAIN h : h[n] = "timeout"

RetryInit ==
    /\ params \in RetryParams
    /\ w = WrapperIdle
    /\ hist = <<>>
    /\ slept = 0
    /\ invocations = 0

RetryIdle ==
    /\ params = DefaultParams
    /\ w = WrapperIdle
    /\ hist = <<>>
    /\ slept = 0
    /\ invocations = 0

\* A call of the decorated function: wrapper is entered.
Invoke ==
    /\ w.state # "running"
    /\ invocations < MaxInvocations
    /\ w' = WrapperStart(params)
    /\ hist' = <<>>
    /\ slept' = 0
    /\ invocations' = invocations + 1
    /\ UNCHANGED <<params, tsVars, windVars, pipeVars>>

\* One iteration of the wrapper's loop: the call of func, with any outcome,
\* and, after a retried error, the time.sleep that follows it.
Attempt ==
    /\ w.state = "running"
    /\ \E kind \in OutcomeKinds :
          LET o == [kind |-> kind, at |-> w.attempts + 1]
          IN  /\ w' = WrapperStep(w, params, o)
              /\ hist' = IF w'.attempts > w.attempts THEN Append(hist, kind) ELSE hist
              /\ IF Sleeps(w, params, o)
                 THEN \E jitter \in Jitters(w.delay) : slept' = slept + w.delay + jitter
                 ELSE slept' = slept
    /\ UNCHANGED <<params, invocations, tsVars, windVars, pipeVars>>

\* C3: when func fails with a retried (transient) error on its first k
\* attempts, k < max_retries, and succeeds on attempt k+1, the wrapper
\* returns the value of attempt k+1, after exactly k+1 attempts and k
\* sleeps: after k such failures it has slept k times and is still running,
\* and the success that follows ends it with that value. Every invocation,
\* a following one included, starts from retry count 0 and the initial
\* delay.
C3_SucceedsAfterTransientFailures ==
    LET n == Len(hist)
    IN  /\ (w.state # "idle" /\ AllTimeouts(hist) /\ n < params.max_retries) =>
               /\ w.state = "running"
               /\ w.attempts = n
               /\ w.sleeps = n
        /\ (w.state # "idle" /\ n >= 1 /\ n - 1 < params.max_retries
              /\ AllTimeouts(SubSeq(hist, 1, n - 1)) /\ hist[n] = "ok") =>
               /\ w.state = "returned"
               /\ w.result = <<[kind |-> "ok", at |-> n]>>
               /\ w.attempts = n
               /\ w.sleeps = n - 1
        /\ (w.state = "running" /\ w.attempts = 0) =>
               /\ w.retries = 0
               /\ w.delay = params.initial_delay

C3_Witness ==
    /\ invocations = 2
    /\ w.state = "returned"
    /\ params.max_retries = 3
    /\ hist = <<"timeout", "timeout", "ok">>
    /\ w.attempts = 3

\* C4: when func fails with a retried (transient) error on every attempt,
\* the wrapper goes on until it has retried max_retries times and then
\* ends, after max_retries + 1 attempts, raising the error of the last
\* attempt; it never makes more than max_retries + 1 attempts.
C4_GivesUpAfterMaxRetries ==
    /\ (w.state # "idle" /\ AllTimeouts(hist)) =>
           IF Len(hist) <= params.max_retries
           THEN w.state = "running" /\ w.retries = Len(hist)
           ELSE /\ w.state = "raised"
                /\ w.result = <<[kind |-> "timeout", at |-> params.max_retries + 1]>>
                /\ w.attempts = params.max_retries + 1
                /\ w.retries = params.max_retries
                /\ w.sleeps = params.max_retries
    /\ w.attempts <= params.max_retries + 1

C4_Witness ==
    /\ w.state = "raised"
    /\ params.max_retries = 3
    /\ hist = <<"timeout", "timeout", "timeout", "timeout">>
    /\ w.attempts = 4

\* C5: when func fails with an error the wrapper does not retry (an
\* ee.EEException that is no timeout, or any other exception) on attempt j,
\* the first or one after j-1 retried errors, the wrapper raises that error
\* at once: it has ended after j attempts and j-1 sleeps, none of them after
\* the failing attempt.
C5_NonTransientRaisesAtOnce ==
    LET j == Len(hist)
    IN  (w.state # "idle" /\ j >= 1 /\ AllTimeouts(SubSeq(hist, 1, j - 1))
           /\ hist[j] \in {"quota", "ee_other", "other"}) =>
            /\ w.state = "raised"
            /\ w.result = <<[kind |-> hist[j], at |-> j]>>
            /\ w.attempts = j
            /\ w.sleeps = j - 1

C5_Witness ==
    /\ w.state = "raised"
    /\ hist = <<"timeout", "ee_other">>
    /\ w.attempts = 2
    /\ w.sleeps = 1

\* base to the power n.
Pow(base, n) ==
    LET RECURSIVE Go(_)
        Go(k) == IF k = 0 THEN 1 ELSE base * Go(k - 1)
    IN  Go(n)

\* The sum of initial_delay * backoff_factor^i for i in 0..k-1.
ScheduleSum(prm, k) ==
    LET RECURSIVE Go(_)
        Go(n) == IF n = 0 THEN 0
                 ELSE Go(n - 1) + prm.initial_delay * Pow(prm.backoff_factor, n - 1)
    IN  Go(k)

\* C14: the sleep before retry number i (i = 0, 1, ...) lasts delay_i plus
\* a jitter, delay_i = initial_delay * backoff_factor^i and
\* 0 <= jitter <= 0.1 * delay_i; and a call that has failed with a timeout
\* k times, k <= max_retries, has been suspended for a total within
\* [S, 1.1 * S], S the sum of the delay_i for i in 0..k-1, which is also the
\* total when attempt k+1 succeeds.
C14_BackoffSchedule ==
    /\ [][w'.sleeps = w.sleeps + 1 =>
            LET delay_i == params.initial_delay * Pow(params.backoff_factor, w.retries)
                sleep_time == slept' - slept
            IN  /\ w'.retries = w.retries + 1
                /\ delay_i <= sleep_time
                /\ 10 * sleep_time <= 11 * delay_i]_vars
    /\ [](LET j == Len(hist)
              k == IF j >= 1 /\ hist[j] = "ok" THEN j - 1 ELSE j
              S == ScheduleSum(params, k)
          IN  (w.state \in {"running", "returned"} /\ AllTimeouts(SubSeq(hist, 1, k))) =>
                 /\ k <= params.max_retries
                 /\ w.sleeps = k
                 /\ S <= slept
                 /\ 10 * slept <= 11 * S)

C14_Witness ==
    /\ w.state = "returned"
    /\ params = [max_retries |-> 3, initial_delay |-> 20, backoff_factor |-> 2]
    /\ hist = <<"timeout", "timeout", "ok">>
    /\ slept = 66

\* C13 (as claimed): an ee.EEException raised for a timeout or for quota
\* exhaustion is transient: the wrapper sleeps and calls func again after
\* it as long as the retry count is below max_retries, so it ends by
\* raising such an error only when max_retries retries have been made, and
\* while only such errors have occurred each of them was followed by a
\* sleep.
C13_TimeoutAndQuotaAreTransient ==
    LET j == Len(hist)
        Transient(kind) == kind \in {"timeout", "quota"}
    IN  /\ (w.state = "raised" /\ j >= 1 /\ Transient(hist[j])) =>
               w.retries = params.max_retries
        /\ (w.state = "running" /\ \A n \in 1..j : Transient(hist[n])) =>
               w.sleeps = j /\ w.retries = j

----------------------------------------------------------------------------
(* get_weather_data (utils.py:192-306)                                      *)
(*                                                                          *)
(* An event (a DataFrame row) is [FIRELABEL, ignition_datetime, LATITUDE,   *)
(* LONGITUDE], the last three nullable. The remote service's behaviour      *)
(* while one row is enriched is an environment record                       *)
(*   query    what era5_filtered.size().getInfo() does: "images" (a count   *)
(*            above 0), "no_images" (count 0) or an error kind              *)
(*   timeouts how many attempts of the point sampling time out before       *)
(*   final    what the next attempt does: an error kind, or the sample it   *)
(*            returns ("None", "empty", "full", "no_temp")                  *)

\* The dictionaries sample_point_data returns: a key is absent (<<>>) or
\* holds a number. Temperatures in hundredths of a kelvin, winds in m/s.
SampleDict(final) ==
    CASE final = "full" ->
            [temperature_2m |-> Some(30000), u_component_of_wind_10m |-> Some(0),
             v_component_of_wind_10m |-> Some(0), dewpoint_temperature_2m |-> Some(28000),
             soil_temperature_level_1 |-> Some(29000)]
      [] final = "no_temp" ->
            [temperature_2m |-> Null, u_component_of_wind_10m |-> Some(1),
             v_component_of_wind_10m |-> Some(-1), dewpoint_temperature_2m |-> Null,
             soil_temperature_level_1 |-> Some(29000)]

ErrorKinds == {"timeout", "ee_other", "other"}
SampleFinals == ErrorKinds \cup {"None", "empty", "full", "no_temp"}

\* What sample_point_data does on each attempt, as outcome kinds.
SampleScript(env) ==
    [n \in 1..(DefaultParams.max_retries + 2) |->
        IF n <= env.timeouts THEN "timeout"
        ELSE IF env.final \in ErrorKinds THEN env.final ELSE "ok"]

\* How many attempts time out: none, as many as may be retried, one more.
TimeoutChoices == {0, DefaultParams.max_retries, DefaultParams.max_retries + 1}

Envs ==
    {[query |-> q, timeouts |-> 0, final |-> "None"] :
        q \in {"no_images"} \cup ErrorKinds}
    \cup {e \in [query : {"images"}, timeouts : TimeoutChoices, final : SampleFinals] :
             e.timeouts > DefaultParams.max_retries => e.final = "timeout"}

\* utils.py:189: sample_point_data_with_retry run to its end.
sample_point_data_with_retry(kinds) ==
    LET RECURSIVE Go(_)
        Go(wr) == IF Terminated(wr) THEN wr
                  ELSE Go(WrapperStep(wr, DefaultParams, Outcome(kinds, wr.attempts + 1)))
    IN  Go(WrapperStart(DefaultParams))

\* utils.py:209-218.
default_values(row) ==
    [temperature_c |-> Null, wind_speed_ms |-> Null, wind_direction_deg |-> Null,
     wind_direction |-> "No data returned",
     humidity_dewpoint_temperature_2m |-> Null, soil_temperature_level_1 |-> Null,
     fire_label |-> row.FIRELABEL, ignition_datetime |-> row.ignition_datetime]

\* utils.py:271-295: the observation built from a sampled dictionary.
observation(row, data) ==
    LET Get0(x) == IF IsNull(x) THEN 0 ELSE x[1]
        u == Get0(data.u_component_of_wind_10m)
        v == Get0(data.v_component_of_wind_10m)
        wind_dir == wind_dir_of(u, v)
        temp_k == data.temperature_2m
    IN  [temperature_c |-> IF IsNull(temp_k) THEN Null ELSE Some(temp_k[1] - 27315),
         wind_speed_ms |-> Some(wind_speed_of(u, v)),
         wind_direction_deg |-> Some(wind_dir),
         wind_direction |-> wind_direction_to_text(wind_dir),
         humidity_dewpoint_temperature_2m |-> data.dewpoint_temperature_2m,
         soil_temperature_level_1 |-> data.soil_temperature_level_1,
         fire_label |-> row.FIRELABEL, ignition_datetime |-> row.ignition_datetime]

\* Only ee.EEException is handled at row level.
CaughtAtRow_onlyEE(kind) == kind \in {"timeout", "ee_other"}

\* utils.py:297 and 301: except ee.EEException, then except Exception.
CaughtAtRow(kind) == kind \in ErrorKinds

\* utils.py:192-306. The result: whether the call returned or raised, the
\* observation returned, and the remote calls it made.
get_weather_data(row, env) ==
    LET Result(obs, q, a) ==
            [status |-> "returned", obs |-> obs, query_calls |-> q, sample_attempts |-> a]
        Failed(kind, q, a) ==
            IF CaughtAtRow(kind) THEN Result(default_values(row), q, a)
            ELSE [status |-> "raised", obs |-> default_values(row),
                  query_calls |-> q, sample_attempts |-> a]
    IN  IF IsNull(row.ignition_datetime) THEN Result(default_values(row), 0, 0)
        ELSE IF IsNull(row.LATITUDE) \/ IsNull(row.LONGITUDE)
        THEN Result(default_values(row), 0, 0)
        ELSE IF env.query \in ErrorKinds THEN Failed(env.query, 1, 0)
        ELSE IF env.query = "no_images" THEN Result(default_values(row), 1, 0)
        ELSE LET wr == sample_point_data_with_retry(SampleScript(env))
                 o == wr.result[1]
             IN  IF wr.state = "raised" THEN Failed(o.kind, 1, wr.attempts)
                 ELSE IF o.kind = "None" \/ env.final \in {"None", "empty"}
                 THEN Result(default_values(row), 1, wr.attempts)
                 ELSE Result(observation(row, SampleDict(env.final)), 1, wr.attempts)

----------------------------------------------------------------------------
(* process_dataframe (utils.py:419-489)                                     *)

MaxEvents == 3          \* rows of the df argument
MaxBatchSize == 2       \* batch_size ranges over 1..MaxBatchSize
MaxRuns == 2            \* runs of the pipeline on one downloads folder

\* ignition_datetime values: NaT (null) or a time; equal times occur.
TimeChoices == {Null, Some(1), Some(2)}

\* Coordinates: both present, or the latitude missing.
CoordChoices == { [LATITUDE |-> Some(49), LONGITUDE |-> Some(-123)],
                  [LATITUDE |-> Null,     LONGITUDE |-> Some(-123)] }

Event(label, t, c) ==
    [FIRELABEL |-> label, ignition_datetime |-> t,
     LATITUDE |-> c.LATITUDE, LONGITUDE |-> c.LONGITUDE]

\* The rows a DataFrame is made of (the coordinates of a row whose time is
\* null are never read: such a row is given with both).
RowChoices ==
    {r \in [t : TimeChoices, c : CoordChoices] :
        IsNull(r.t) => ~IsNull(r.c.LATITUDE)}

\* FIRELABEL is the row's position in the input.
DataFrames ==
    UNION { { [k \in 1..n |-> Event(k, rs[k].t, rs[k].c)] : rs \in [1..n -> RowChoices] }
            : n \in 0..MaxEvents }

NotNaT(row) == ~IsNull(row.ignition_datetime)

IsSortedByTime(rows) ==
    \A a, b \in DOMAIN rows :
        a < b => rows[a].ignition_datetime[1] <= rows[b].ignition_datetime[1]

\* The rows are left in the order given.
sort_values_unsorted(rows) == {rows}

\* DataFrame.sort_values("ignition_datetime"): the default sort is not
\* stable, so rows of equal time may come in any order.
sort_values(rows) ==
    { [k \in DOMAIN rows |-> rows[f[k]]] : f \in
        {g \in Perms(Len(rows)) : IsSortedByTime([k \in DOMAIN rows |-> rows[g[k]]])} }

\* Rounded down: len(df) // batch_size.
total_batches_floor(n, b) == n \div b

\* utils.py:435.
total_batches_of(n, b) == (n + b - 1) \div b

\* utils.py:439: df.iloc[i:i+batch_size], i counted from 0.
iloc(rows, i, b) ==
    SubSeq(rows, i + 1, IF i + b < Len(rows) THEN i + b ELSE Len(rows))

\* len(batch_results['temperature_c'].value_counts()): the number of
\* distinct non-null temperatures.
value_counts(batch_results) ==
    Cardinality({batch_results[k].temperature_c :
                    k \in {j \in DOMAIN batch_results :
                              ~IsNull(batch_results[j].temperature_c)}})

\* Only a batch without rows is skipped.
NoTemperature_onlyEmpty(batch_results) == batch_results = <<>>

\* utils.py:451: the batch has no temperature data.
NoTemperature(batch_results) == value_counts(batch_results) = 0

\* utils.py:463: f"weather_data_batch_{batch_num}_of_{total_batches}.csv".
download_name(batch_num, total_batches) ==
    <<"weather_data_batch_", batch_num, "_of_", total_batches, ".csv">>

\* The downloads folder before anything is saved.
EmptyFolder == [name \in {} |-> 0]

\* utils.py:309-337: to_csv writes the rows to the file of that name in
\* the folder, creating the file or replacing its content.
save_results_to_downloads(folder, weather_data, filename) ==
    [name \in DOMAIN folder \cup {filename} |->
        IF name = filename
        THEN [rows |-> weather_data,
              written |-> IF filename \in DOMAIN folder THEN folder[filename].written + 1
                          ELSE 1]
        ELSE folder[name]]

PipeStart ==
    [df |-> <<>>, total_batches |-> 0, i |-> 0, batch_results |-> <<>>,
     results |-> <<>>, writes |-> <<>>, batches |-> <<>>, paced |-> {},
     returned |-> <<>>]

PipeInit ==
    /\ df_in \in DataFrames
    /\ batch_size \in 1..MaxBatchSize
    /\ pc = "start"
    /\ p = PipeStart
    /\ disk = EmptyFolder
    /\ runs = 1

PipeIdle ==
    /\ df_in = <<>>
    /\ batch_size = 1
    /\ pc = "start"
    /\ p = PipeStart
    /\ disk = EmptyFolder
    /\ runs = 1

\* utils.py:432-435: filter, sort, count the batches; the loop is entered
\* when there is a row.
Start ==
    /\ pc = "start"
    /\ \E df \in sort_values(SelectSeq(df_in, NotNaT)) :
          /\ p' = [p EXCEPT !.df = df,
                            !.total_batches = total_batches_of(Len(df), batch_size)]
          /\ pc' = IF Len(df) > 0 THEN "rows" ELSE "combine"
    /\ UNCHANGED <<df_in, batch_size, disk, runs, tsVars, windVars, retryVars>>

\* utils.py:447: batch.apply(get_weather_data, ...) on the next row of the
\* batch that starts at offset p.i.
GetWeatherData ==
    /\ pc = "rows"
    /\ LET batch == iloc(p.df, p.i, batch_size)
           row == batch[Len(p.batch_results) + 1]
       IN  \E env \in Envs :
              LET r == get_weather_data(row, env)
              IN  IF r.status = "raised"
                  THEN /\ pc' = "raised"
                       /\ p' = p
                  ELSE /\ p' = [p EXCEPT !.batch_results = Append(@, r.obs)]
                       /\ pc' = IF Len(p.batch_results) + 1 = Len(batch)
                                THEN "batch_end" ELSE "rows"
    /\ UNCHANGED <<df_in, batch_size, disk, runs, tsVars, windVars, retryVars>>

\* The loop's next iteration, or its end: range(0, len(df), batch_size).
NextBatch(q) ==
    [q EXCEPT !.i = @ + batch_size, !.batch_results = <<>>]

AfterBatch(q) == IF q.i + batch_size < Len(q.df) THEN "rows" ELSE "combine"

\* utils.py:449-470, up to the time.sleep: the batch is skipped (continue),
\* or appended to results and saved; a saved batch that is not the last is
\* followed by the pause.
EndBatch ==
    /\ pc = "batch_end"
    /\ LET batch == iloc(p.df, p.i, batch_size)
           batch_num == p.i \div batch_size + 1
           Log(status) == [batch_num |-> batch_num, status |-> status,
                           labels |-> [k \in DOMAIN batch |-> batch[k].FIRELABEL],
                           rows |-> p.batch_results]
       IN  IF NoTemperature(p.batch_results)
           THEN /\ p' = NextBatch([p EXCEPT !.batches = Append(@, Log("FAILED"))])
                /\ pc' = AfterBatch(p)
                /\ disk' = disk
           ELSE LET q == [p EXCEPT
                           !.results = Append(@, p.batch_results),
                           !.writes = Append(@, [batch_num |-> batch_num,
                                                 total_batches |-> p.total_batches,
                                                 rows |-> p.batch_results]),
                           !.batches = Append(@, Log("OK"))]
                IN  /\ disk' = save_results_to_downloads(disk, p.batch_results,
                                        download_name(batch_num, p.total_batches))
                    /\ IF batch_num < p.total_batches
                       THEN /\ pc' = "pause"
                            /\ p' = q
                       ELSE /\ pc' = AfterBatch(p)
                            /\ p' = NextBatch(q)
    /\ UNCHANGED <<df_in, batch_size, runs, tsVars, windVars, retryVars>>

\* utils.py:467-470: time.sleep(batch_delay), then the next iteration.
Pause ==
    /\ pc = "pause"
    /\ p' = NextBatch([p EXCEPT !.paced = @ \cup {p.i \div batch_size + 1}])
    /\ pc' = AfterBatch(p)
    /\ UNCHANGED <<df_in, batch_size, disk, runs, tsVars, windVars, retryVars>>

\* utils.py:472-489: the concatenation of results (ee.data.computeValue may
\* raise), or the local df when results is empty.
Combine ==
    /\ pc = "combine"
    /\ IF p.results # <<>>
       THEN \E synced \in BOOLEAN :
               IF synced
               THEN /\ pc' = "done"
                    /\ p' = [p EXCEPT !.returned =
                                <<[kind |-> "weather_data", rows |-> Flatten(p.results)]>>]
               ELSE /\ pc' = "raised"
                    /\ p' = p
       ELSE /\ pc' = "done"
            /\ p' = [p EXCEPT !.returned = <<[kind |-> "df", rows |-> p.df]>>]
    /\ UNCHANGED <<df_in, batch_size, disk, runs, tsVars, windVars, retryVars>>

\* extract.py:40: the program is run again and calls process_dataframe on
\* the same data; the downloads folder is as the earlier runs left it.
Rerun ==
    /\ pc \in {"done", "raised"}
    /\ runs < MaxRuns
    /\ runs' = runs + 1
    /\ pc' = "start"
    /\ p' = PipeStart
    /\ UNCHANGED <<df_in, batch_size, disk, tsVars, windVars, retryVars>>

----------------------------------------------------------------------------
(* Specifications *)

\* process_dataframe on one DataFrame.
Init == PipeInit /\ TsIdle /\ WindIdle /\ RetryIdle

Next == Start \/ GetWeatherData \/ EndBatch \/ Pause \/ Combine

Spec == Init /\ [][Next]_vars

\* Runs of process_dataframe one after the other, on one downloads folder.
NextRuns == Next \/ Rerun

SpecRuns == Init /\ [][NextRuns]_vars

\* convert_float_to_datetime on one Series.
InitTs == TsInit /\ WindIdle /\ RetryIdle /\ PipeIdle

NextTs == Convert

SpecTs == InitTs /\ [][NextTs]_vars

\* wind_direction_to_text and the wind decoding on one input.
InitWind == WindInit /\ TsIdle /\ RetryIdle /\ PipeIdle

NextWind == ToText \/ Decode

SpecWind == InitWind /\ [][NextWind]_vars

\* Invocations of one function decorated by retry_with_backoff.
InitRetry == RetryInit /\ TsIdle /\ WindIdle /\ PipeIdle

NextRetry == Invoke \/ Attempt

SpecRetry == InitRetry /\ [][NextRetry]_vars

----------------------------------------------------------------------------
(* Properties of process_dataframe and get_weather_data *)

Labels(rows) == [k \in DOMAIN rows |-> rows[k].FIRELABEL]
ObsLabels(rows) == [k \in DOMAIN rows |-> rows[k].fire_label]

\* The loop over the batches is over.
LoopOver == pc \in {"combine", "done", "raised"}

\* The least t with t * b >= n.
Ceil(n, b) == CHOOSE t \in 0..n : t * b >= n /\ (t = 0 \/ (t - 1) * b < n)

NoUsableRow(rows) == \A k \in DOMAIN rows : IsNull(rows[k].temperature_c)

OkBatch(b) == b.status = "OK"

\* C2: a batch in which no row has a non-null temperature_c produces no
\* checkpoint file and none of its observations is in results or in the
\* concatenated result; and the pipeline goes on: the batches are processed
\* one after the other and the loop ends only when all of them have been.
C2_FailedBatchIsolated ==
    /\ \A k \in DOMAIN p.batches :
          LET b == p.batches[k]
          IN  NoUsableRow(b.rows) =>
                /\ \A n \in DOMAIN p.writes : p.writes[n].batch_num # b.batch_num
                /\ \A n \in DOMAIN p.writes :
                      \A m \in DOMAIN p.writes[n].rows :
                          p.writes[n].rows[m].fire_label \notin Range(b.labels)
                /\ \A n \in DOMAIN p.results :
                      \A m \in DOMAIN p.results[n] :
                          p.results[n][m].fire_label \notin Range(b.labels)
                /\ (pc = "done" /\ p.returned[1].kind = "weather_data") =>
                      \A m \in DOMAIN p.returned[1].rows :
                          p.returned[1].rows[m].fire_label \notin Range(b.labels)
    /\ \A k \in DOMAIN p.batches : p.batches[k].batch_num = k
    /\ LoopOver => Len(p.batches) = Ceil(Len(p.df), batch_size)
    /\ pc = "raised" => p.results # <<>>

C2_Witness ==
    /\ pc = "done"
    /\ Len(p.batches) = 3
    /\ NoUsableRow(p.batches[1].rows)
    /\ p.batches[1].rows[1].wind_direction # "No data returned"
    /\ p.batches[2].status = "OK"
    /\ NoUsableRow(p.batches[3].rows)
    /\ p.returned[1].kind = "weather_data"
    /\ Len(p.returned[1].rows) = 1

\* C6: the returned result is the concatenation of the observations of the
\* succeeded batches in batch order; its ignition timestamps are
\* non-decreasing and its rows are in the relative order of the filtered,
\* timestamp-sorted input, which holds the events of known timestamp.
C6_ResultInTimestampOrder ==
    (pc = "done" /\ p.returned[1].kind = "weather_data") =>
        LET rows == p.returned[1].rows
            ok == SelectSeq(p.batches, OkBatch)
            InOk(label) == \E k \in DOMAIN ok : label \in Range(ok[k].labels)
        IN  /\ rows = Flatten([k \in DOMAIN ok |-> ok[k].rows])
            /\ \A a, c \in DOMAIN rows :
                  a < c => rows[a].ignition_datetime[1] <= rows[c].ignition_datetime[1]
            /\ ObsLabels(rows) = SelectSeq(Labels(p.df), InOk)
            /\ \A k \in DOMAIN rows :
                  \E e \in Range(df_in) :
                      /\ e.FIRELABEL = rows[k].fire_label
                      /\ e.ignition_datetime = rows[k].ignition_datetime
            /\ Range(Labels(p.df)) = {e.FIRELABEL : e \in {x \in Range(df_in) : NotNaT(x)}}
            /\ Len(p.df) = Cardinality(Range(Labels(p.df)))

C6_Witness ==
    /\ pc = "done"
    /\ p.returned[1].kind = "weather_data"
    /\ Len(df_in) = 3
    /\ df_in[1].ignition_datetime = Some(2)
    /\ df_in[2].ignition_datetime = Null
    /\ df_in[3].ignition_datetime = Some(1)
    /\ ObsLabels(p.returned[1].rows) = <<3, 1>>

\* C7 (as claimed): when every batch failed, the pipeline returns the input
\* it was given unchanged: the same events in the same order.
C7_AllFailedReturnsInputUnchanged ==
    (pc = "done" /\ p.batches # <<>>
       /\ \A k \in DOMAIN p.batches : p.batches[k].status = "FAILED") =>
        p.returned[1].rows = df_in

\* The failure causes of a row: missing coordinates, a failed or empty
\* query, retries exhausted, an error that is not retried, an empty sample.
RowFailure(row, env) ==
    \/ IsNull(row.LATITUDE) \/ IsNull(row.LONGITUDE)
    \/ env.query # "images"
    \/ env.timeouts > DefaultParams.max_retries
    \/ env.final \in ErrorKinds \cup {"None", "empty"}

\* C8: get_weather_data returns exactly one observation for every event and
\* never raises, whatever the remote service does; a row failure yields the
\* default observation (numeric fields null, wind_direction "No data
\* returned", label and timestamp carried over); and the rows of a batch
\* are all processed, one observation per event in order.
C8_RowFailureIsolated ==
    /\ pc = "rows" =>
          LET batch == iloc(p.df, p.i, batch_size)
              row == batch[Len(p.batch_results) + 1]
          IN  \A env \in Envs :
                 LET r == get_weather_data(row, env)
                 IN  /\ r.status = "returned"
                     /\ r.obs.fire_label = row.FIRELABEL
                     /\ r.obs.ignition_datetime = row.ignition_datetime
                     /\ RowFailure(row, env) =>
                           /\ r.obs.temperature_c = Null
                           /\ r.obs.wind_speed_ms = Null
                           /\ r.obs.wind_direction_deg = Null
                           /\ r.obs.humidity_dewpoint_temperature_2m = Null
                           /\ r.obs.soil_temperature_level_1 = Null
                           /\ r.obs.wind_direction = "No data returned"
    /\ pc \in {"rows", "batch_end"} =>
          ObsLabels(p.batch_results)
              = SubSeq(Labels(iloc(p.df, p.i, batch_size)), 1, Len(p.batch_results))
    /\ \A k \in DOMAIN p.batches : ObsLabels(p.batches[k].rows) = p.batches[k].labels
    /\ pc = "raised" => p.results # <<>> /\ Len(p.batches) = p.total_batches

C8_Witness ==
    /\ pc = "batch_end"
    /\ Len(p.batch_results) = 2
    /\ p.batch_results[1].wind_direction = "No data returned"
    /\ ~IsNull(p.df[p.i + 1].LATITUDE)
    /\ ~IsNull(p.batch_results[2].temperature_c)

\* C10: the n events of known timestamp are split into ceil(n / b)
\* contiguous batches numbered from 1, each but the last of b events, every
\* event in exactly one batch, each batch processed once and in order. 120
\* events with b = 50 make batches of 50, 50 and 20, and the first and the
\* third together hold 70 rows.
C10_Batching ==
    LET n == Len(p.df)
        b == batch_size
        T == Ceil(n, b)
        R120 == [k \in 1..120 |-> k]
    IN  /\ pc # "start" => p.total_batches = T
        /\ Len(p.batches) <= T
        /\ LoopOver => Len(p.batches) = T
        /\ pc \in {"rows", "batch_end", "pause"} => p.i = Len(p.batches) * b - (IF pc = "pause" THEN b ELSE 0)
        /\ \A k \in DOMAIN p.batches :
              LET lo == (k - 1) * b + 1
                  hi == IF k * b < n THEN k * b ELSE n
              IN  /\ p.batches[k].batch_num = k
                  /\ p.batches[k].labels = SubSeq(Labels(p.df), lo, hi)
                  /\ Len(p.batches[k].rows) = hi - lo + 1
                  /\ hi >= lo
                  /\ k < T => Len(p.batches[k].labels) = b
        /\ LoopOver =>
              Flatten([k \in DOMAIN p.batches |-> p.batches[k].labels]) = Labels(p.df)
        /\ pc = "start" =>
           /\ total_batches_of(120, 50) = 3
           /\ <<Len(iloc(R120, 0, 50)), Len(iloc(R120, 50, 50)), Len(iloc(R120, 100, 50))>>
                 = <<50, 50, 20>>
           /\ Len(iloc(R120, 0, 50) \o iloc(R120, 100, 50)) = 70

C10_Witness ==
    /\ pc = "done"
    /\ Len(p.df) = 3
    /\ batch_size = 2
    /\ Len(p.batches) = 2
    /\ p.batches[2].labels = <<p.df[3].FIRELABEL>>
    /\ p.batches[1].status = "FAILED"

\* C11 (as claimed): in every run each succeeded batch is persisted exactly
\* once, under weather_data_batch_{batch_num}_of_{total_batches}.csv, with
\* one row per event of the batch in processing order, and no failed batch
\* is persisted; and a file once written is never written again, by this
\* run or by a following one: its content and its write count stay.
C11_CheckpointsWriteOnce ==
    /\ [](\A k \in DOMAIN p.batches :
            LET b == p.batches[k]
                name == download_name(b.batch_num, p.total_batches)
                Saves == {n \in DOMAIN p.writes : p.writes[n].batch_num = b.batch_num}
            IN  IF b.status = "OK"
                THEN /\ Cardinality(Saves) = 1
                     /\ name \in DOMAIN disk
                     /\ disk[name].rows = b.rows
                     /\ ObsLabels(disk[name].rows) = b.labels
                ELSE Saves = {})
    /\ [][\A name \in DOMAIN disk :
            name \in DOMAIN disk' /\ disk'[name] = disk[name]]_vars

\* C12 (as claimed): every batch that is not the last, succeeded or failed,
\* is followed by the pause (time.sleep(batch_delay)) before anything of
\* the next batch is done, and the last batch is followed by none. A batch
\* whose pause is under way (pc = "pause") is not yet counted as paced.
C12_PacedBetweenBatches ==
    /\ \A k \in DOMAIN p.batches :
          (k < p.total_batches /\ ~(pc = "pause" /\ k = Len(p.batches)))
              => k \in p.paced
    /\ p.total_batches \notin p.paced

\* C16 (as claimed): a transient error (a timeout) of either remote call of
\* a row, the query for the images of the time window or the point
\* sampling, is retried per the retry policy: a call that times out is made
\* again, and the row gets the default observation for such an error only
\* when the call has been made max_retries + 1 times.
C16_TransientRetriedBeforeDegrade ==
    pc = "rows" =>
        LET batch == iloc(p.df, p.i, batch_size)
            row == batch[Len(p.batch_results) + 1]
            max_retries == DefaultParams.max_retries
        IN  \A env \in Envs :
               LET r == get_weather_data(row, env)
               IN  (~IsNull(row.LATITUDE) /\ ~IsNull(row.LONGITUDE)) =>
                      /\ env.query = "timeout" =>
                            r.query_calls = max_retries + 1
                      /\ (env.query = "images" /\ env.timeouts <= max_retries
                            /\ env.final # "timeout") =>
                            r.sample_attempts = env.timeouts + 1
                      /\ (env.query = "images"
                            /\ (env.timeouts > max_retries \/ env.final = "timeout")) =>
                            /\ r.sample_attempts = max_retries + 1
                            /\ r.obs = default_values(row)

====
